---- MODULE Spec2Model ----
(***************************************************************************)
(* Model of fan_3d_simulation.py: the Fan3D entity (configuration, speed   *)
(* and oscillation physics, mesh generators, per-face shading, render) and *)
(* the key intents of FanSimulator.setup_controls.on_key.                  *)
(*                                                                         *)
(* A mesh is [vertices |-> the number of vertices, faces |-> the sequence  *)
(* of faces], a face being the sequence of its 0-based vertex indices.     *)
(* Vertex coordinates are not modelled: how many vertices and which faces  *)
(* a generator emits does not depend on them.                              *)
(*                                                                         *)
(* Numbers.  The program computes with floats; the model is fixed point.   *)
(*   speeds, lengths, degrees : hundredths  (2.0 -> 200, 0.05 -> 5)        *)
(*   dt                       : milliseconds (0.016 -> 16)                 *)
(*   angle                    : units of pi * 10^-5 rad, so that           *)
(*                              current_speed * dt * pi is                 *)
(*                              current_speed * dt and 2*pi is 200000      *)
(* Every speed the program assigns is either a clamp value (target_speed,  *)
(* 0) or a previous speed plus or minus a step, so the fixed-point values  *)
(* are the exact values that the float values approximate.                 *)
(***************************************************************************)
EXTENDS Integers, Sequences, FiniteSets, TLC

VARIABLES fan_type, angle, is_on, oscillate, oscillate_angle,
          oscillate_direction, lighting_mode,
          blade_count, blade_length, blade_width, motor_radius,
          has_stand, tilt_angle,
          target_speed, current_speed,
          returned

vars == <<fan_type, angle, is_on, oscillate, oscillate_angle,
          oscillate_direction, lighting_mode,
          blade_count, blade_length, blade_width, motor_radius,
          has_stand, tilt_angle,
          target_speed, current_speed,
          returned>>

config_vars == <<blade_count, blade_length, blade_width, motor_radius,
                 has_stand, tilt_angle>>

physics_vars == <<angle, is_on, oscillate, oscillate_angle,
                  oscillate_direction, target_speed, current_speed>>

\* what the last call of a generator, of apply_lighting or of render returned
render_vars == <<returned>>

Min(a, b) == IF a < b THEN a ELSE b

Max(a, b) == IF a > b THEN a ELSE b

Abs(a) == IF a < 0 THEN -a ELSE a

(***************************************************************************)
(* Fan3D.__init__ : the fields that are set once and never written again.  *)
(***************************************************************************)
speed == 200

max_speed == 1000

oscillate_range == 6000

acceleration == 10

deceleration == 5

\* the oscillation step of update_physics (0.5 degrees per call)
oscillate_step == 50

\* the target_speed step of the up / down keys (0.5)
key_speed_step == 50

\* the target restored by the power key when the fan is turned on (2.0)
power_on_speed == 200

\* the default of update_physics' dt parameter (0.016 s)
DefaultDt == 16

\* 2 * pi in angle units
TwoPi == 200000

\* dt values that direct callers of update_physics pass: 0 s and 1 s
DtInputs == {0, 1000}

modes == <<"realistic", "flat", "dramatic">>

types == <<"ceiling", "table", "tower", "industrial", "desk">>

\* names a Fan3D can be constructed with: the five archetypes and two
\* names that are not archetypes
FanTypeInputs == {"ceiling", "table", "tower", "industrial", "desk",
                  "pedestal", ""}

(***************************************************************************)
(* Fan3D.configure_fan                                                     *)
(***************************************************************************)
configs ==
  [ceiling    |-> [blade_count |-> 3,  blade_length |-> 150, blade_width |-> 30,
                   motor_radius |-> 20, has_stand |-> FALSE, tilt_angle |-> 0],
   table      |-> [blade_count |-> 4,  blade_length |-> 80,  blade_width |-> 20,
                   motor_radius |-> 15, has_stand |-> TRUE,  tilt_angle |-> 1500],
   tower      |-> [blade_count |-> 20, blade_length |-> 30,  blade_width |-> 10,
                   motor_radius |-> 10, has_stand |-> TRUE,  tilt_angle |-> 0],
   industrial |-> [blade_count |-> 5,  blade_length |-> 200, blade_width |-> 40,
                   motor_radius |-> 30, has_stand |-> TRUE,  tilt_angle |-> 0],
   desk       |-> [blade_count |-> 3,  blade_length |-> 50,  blade_width |-> 15,
                   motor_radius |-> 10, has_stand |-> TRUE,  tilt_angle |-> 2000]]

\* config = configs.get(self.fan_type, configs['ceiling'])
configure_fan_table(ft) ==
  IF ft \in DOMAIN configs THEN configs[ft] ELSE configs["table"]

configure_fan(ft) ==
  IF ft \in DOMAIN configs THEN configs[ft] ELSE configs["ceiling"]

\* the six assignments of configure_fan, for the fan type of the next state
ConfigureFan(ft) ==
  LET config == configure_fan(ft) IN
    /\ blade_count'  = config.blade_count
    /\ blade_length' = config.blade_length
    /\ blade_width'  = config.blade_width
    /\ motor_radius' = config.motor_radius
    /\ has_stand'    = config.has_stand
    /\ tilt_angle'   = config.tilt_angle

\* nothing has been generated or rendered yet
NoCall == [call |-> "none"]

(***************************************************************************)
(* Fan3D.__init__(fan_type)                                                *)
(***************************************************************************)
InitFan(ft) ==
  LET config == configure_fan(ft) IN
    /\ fan_type = ft
    /\ angle = 0
    /\ is_on = TRUE
    /\ oscillate = FALSE
    /\ oscillate_angle = 0
    /\ oscillate_direction = 1
    /\ lighting_mode = "realistic"
    /\ blade_count  = config.blade_count
    /\ blade_length = config.blade_length
    /\ blade_width  = config.blade_width
    /\ motor_radius = config.motor_radius
    /\ has_stand    = config.has_stand
    /\ tilt_angle   = config.tilt_angle
    /\ target_speed = speed
    /\ current_speed = 0
    /\ returned = NoCall

\* FanSimulator.__init__ : self.fan = Fan3D('ceiling')
Init == InitFan("ceiling")

(***************************************************************************)
(* Fan3D.update_physics(dt)                                                *)
(***************************************************************************)
\* the speed law with the off branch not clamped at 0
UpdateSpeedNoFloor(on, cur, tgt) ==
  IF on
  THEN IF cur < tgt THEN Min(tgt, cur + acceleration)
       ELSE IF cur > tgt THEN Max(tgt, cur - deceleration)
       ELSE cur
  ELSE cur - deceleration

\* the speed law with the accelerating branch not clamped at the target
UpdateSpeedNoClamp(on, cur, tgt) ==
  IF on
  THEN IF cur < tgt THEN cur + acceleration
       ELSE IF cur > tgt THEN Max(tgt, cur - deceleration)
       ELSE cur
  ELSE Max(0, cur - deceleration)

\* the speed law with the is_on test dropped
UpdateSpeedIgnoreOff(on, cur, tgt) ==
  IF cur < tgt THEN Min(tgt, cur + acceleration)
  ELSE IF cur > tgt THEN Max(tgt, cur - deceleration)
  ELSE cur

UpdateSpeed(on, cur, tgt) ==
  IF on
  THEN IF cur < tgt THEN Min(tgt, cur + acceleration)
       ELSE IF cur > tgt THEN Max(tgt, cur - deceleration)
       ELSE cur
  ELSE Max(0, cur - deceleration)

\* np.clip(a, lo, hi)
Clip(a, lo, hi) == IF a < lo THEN lo ELSE IF a > hi THEN hi ELSE a

\* the oscillation law with > in place of >=
UpdateOscillationStrict(ang, dir) ==
  LET a == ang + dir * oscillate_step IN
    IF Abs(a) > oscillate_range \div 2
    THEN <<Clip(a, -(oscillate_range \div 2), oscillate_range \div 2), -dir>>
    ELSE <<a, dir>>

\* one oscillating update: <<oscillate_angle, oscillate_direction>> after it
UpdateOscillation(ang, dir) ==
  LET a == ang + dir * oscillate_step IN
    IF Abs(a) >= oscillate_range \div 2
    THEN <<Clip(a, -(oscillate_range \div 2), oscillate_range \div 2), -dir>>
    ELSE <<a, dir>>

UpdatePhysics(dt) ==
  LET s == UpdateSpeed(is_on, current_speed, target_speed)
      o == UpdateOscillation(oscillate_angle, oscillate_direction)
  IN
    /\ current_speed' = s
    /\ angle' = (angle + s * dt) % TwoPi
    /\ IF oscillate
       THEN /\ oscillate_angle' = o[1]
            /\ oscillate_direction' = o[2]
       ELSE UNCHANGED <<oscillate_angle, oscillate_direction>>
    /\ UNCHANGED <<fan_type, is_on, oscillate, lighting_mode, target_speed>>
    /\ UNCHANGED config_vars
    /\ UNCHANGED render_vars

(***************************************************************************)
(* FanSimulator.setup_controls.on_key                                      *)
(***************************************************************************)
\* the up key with max in place of min
KeyUpMax ==
  /\ target_speed' = Max(max_speed, target_speed + key_speed_step)
  /\ UNCHANGED <<fan_type, angle, is_on, oscillate, oscillate_angle,
                 oscillate_direction, lighting_mode, current_speed>>
  /\ UNCHANGED config_vars
  /\ UNCHANGED render_vars

KeyUp ==
  /\ target_speed' = Min(max_speed, target_speed + key_speed_step)
  /\ UNCHANGED <<fan_type, angle, is_on, oscillate, oscillate_angle,
                 oscillate_direction, lighting_mode, current_speed>>
  /\ UNCHANGED config_vars
  /\ UNCHANGED render_vars

KeyDown ==
  /\ target_speed' = Max(0, target_speed - key_speed_step)
  /\ UNCHANGED <<fan_type, angle, is_on, oscillate, oscillate_angle,
                 oscillate_direction, lighting_mode, current_speed>>
  /\ UNCHANGED config_vars
  /\ UNCHANGED render_vars

KeySpace ==
  /\ oscillate' = ~oscillate
  /\ UNCHANGED <<fan_type, angle, is_on, oscillate_angle,
                 oscillate_direction, lighting_mode, target_speed,
                 current_speed>>
  /\ UNCHANGED config_vars
  /\ UNCHANGED render_vars

\* the power key that keeps the held target when the fan is turned on
KeyOKeepTarget ==
  /\ is_on' = ~is_on
  /\ target_speed' = IF ~is_on' THEN 0 ELSE target_speed
  /\ UNCHANGED <<fan_type, angle, oscillate, oscillate_angle,
                 oscillate_direction, lighting_mode, current_speed>>
  /\ UNCHANGED config_vars
  /\ UNCHANGED render_vars

KeyO ==
  /\ is_on' = ~is_on
  /\ target_speed' = IF ~is_on' THEN 0 ELSE power_on_speed
  /\ UNCHANGED <<fan_type, angle, oscillate, oscillate_angle,
                 oscillate_direction, lighting_mode, current_speed>>
  /\ UNCHANGED config_vars
  /\ UNCHANGED render_vars

\* modes.index(lighting_mode), 0-based
ModeIndex(m) == CHOOSE i \in 0..(Len(modes) - 1) : modes[i + 1] = m

KeyL ==
  /\ lighting_mode' = modes[((ModeIndex(lighting_mode) + 1) % Len(modes)) + 1]
  /\ UNCHANGED <<fan_type>>
  /\ UNCHANGED physics_vars
  /\ UNCHANGED config_vars
  /\ UNCHANGED render_vars

\* the archetype key that builds the fan anew, as the constructor does
KeyDigitReset(k) ==
  /\ fan_type' = types[k]
  /\ ConfigureFan(fan_type')
  /\ angle' = 0
  /\ current_speed' = 0
  /\ UNCHANGED <<is_on, oscillate, oscillate_angle, oscillate_direction,
                 target_speed, lighting_mode>>
  /\ UNCHANGED render_vars

\* keys '1'..'5': k is int(event.key)
KeyDigit(k) ==
  /\ fan_type' = types[k]
  /\ ConfigureFan(fan_type')
  /\ UNCHANGED <<lighting_mode>>
  /\ UNCHANGED physics_vars
  /\ UNCHANGED render_vars

(***************************************************************************)
(* Geometry generators                                                     *)
(***************************************************************************)
\* generate_blade: num_segments
num_segments == 20

\* generate_motor_housing: len(np.linspace(0, 2 * np.pi, 32))
motor_n_theta == 32

\* generate_motor_housing: height_segments
height_segments == 5

\* generate_stand: len(np.linspace(0, 2 * np.pi, 16))
stand_n_theta == 16

\* generate_stand: len(np.linspace(-pole_height, -0.2, 20))
stand_levels == 20

\* generate_stand: range(19) of the pole faces
stand_face_rows == 19

\* generate_safety_cage: n_rings
n_rings == 8

\* generate_safety_cage: n_spokes
n_spokes == 16

\* generate_blade(angle_offset): per segment four vertices are appended and
\* one face over them; motor_radius, blade_length, blade_width and the angle
\* enter the coordinates only
generate_blade ==
  [vertices |-> 4 * num_segments,
   faces |-> [s \in 1..num_segments |->
                LET idx == 4 * (s - 1) IN <<idx, idx + 1, idx + 2, idx + 3>>]]

\* the motor housing with the inner face loop running over all n_theta
\* columns instead of n_theta - 1
generate_motor_housing_wrap ==
  [vertices |-> (height_segments + 1) * motor_n_theta,
   faces |-> [f \in 1..(height_segments * motor_n_theta) |->
                LET i == (f - 1) \div motor_n_theta
                    j == (f - 1) % motor_n_theta
                    idx == i * motor_n_theta + j
                IN <<idx, idx + 1, idx + motor_n_theta + 1,
                     idx + motor_n_theta>>]]

\* generate_motor_housing(): (height_segments + 1) rings of n_theta vertices,
\* faces between neighbouring rings; motor_radius enters the coordinates only
generate_motor_housing ==
  [vertices |-> (height_segments + 1) * motor_n_theta,
   faces |-> [f \in 1..(height_segments * (motor_n_theta - 1)) |->
                LET i == (f - 1) \div (motor_n_theta - 1)
                    j == (f - 1) % (motor_n_theta - 1)
                    idx == i * motor_n_theta + j
                IN <<idx, idx + 1, idx + motor_n_theta + 1,
                     idx + motor_n_theta>>]]

\* generate_stand(): empty without a stand; else the pole rings and the two
\* base rings as vertices, and faces over the pole only
generate_stand(hs) ==
  IF ~hs
  THEN [vertices |-> 0, faces |-> <<>>]
  ELSE [vertices |-> stand_levels * stand_n_theta + 2 * stand_n_theta,
        faces |-> [f \in 1..(stand_face_rows * (stand_n_theta - 1)) |->
                     LET i == (f - 1) \div (stand_n_theta - 1)
                         j == (f - 1) % (stand_n_theta - 1)
                         idx == i * stand_n_theta + j
                     IN <<idx, idx + 1, idx + stand_n_theta + 1,
                          idx + stand_n_theta>>]]

\* generate_safety_cage(): front rings, rear rings, and faces that join a
\* front ring to the rear ring; blade_length enters the coordinates only
generate_safety_cage ==
  [vertices |-> 2 * n_rings * n_spokes,
   faces |-> [f \in 1..((n_spokes - 1) * (n_rings - 1)) |->
                LET i == (f - 1) \div (n_rings - 1)
                    j == (f - 1) % (n_rings - 1)
                    idx_front == j * n_spokes + i
                    idx_back == (n_rings + j) * n_spokes + i
                IN <<idx_front, idx_front + 1, idx_back + 1, idx_back>>]]

(***************************************************************************)
(* Fan3D.apply_lighting and Fan3D.render                                   *)
(***************************************************************************)
\* the colour apply_lighting computes for one face: a function of the face's
\* first three vertices, the base colour and the lighting mode
face_color(face, color, mode) == [face |-> face, color |-> color, mode |-> mode]

HasThree(face) == Len(face) >= 3

\* apply_lighting(vertices, faces, color): one colour per face with at least
\* three vertices, in the order of the faces
apply_lighting(vertices, faces, color, mode) ==
  IF vertices = 0 \/ Len(faces) = 0
  THEN <<>>
  ELSE LET kept == SelectSeq(faces, HasThree) IN
         [k \in 1..Len(kept) |-> face_color(kept[k], color, mode)]

\* render, for one mesh with len(vertices) > 0: the face list handed to
\* Poly3DCollection and the facecolors handed with it
render_mesh(part, m, color, mode) ==
  [part |-> part,
   face_vertices |-> [k \in 1..Len(m.faces) |-> m.faces[k]],
   facecolors |-> apply_lighting(m.vertices, m.faces, color, mode)]

\* render, for the safety cage: one fixed colour for all faces
render_cage(m) ==
  [part |-> "cage",
   face_vertices |-> [k \in 1..Len(m.faces) |-> m.faces[k]],
   facecolors |-> <<>>]

\* render(): all_collections
render ==
  LET blades == IF generate_blade.vertices > 0
                THEN [i \in 1..blade_count |->
                        render_mesh("blade", generate_blade, "blade_color",
                                    lighting_mode)]
                ELSE <<>>
      motor == IF generate_motor_housing.vertices > 0
               THEN <<render_mesh("motor", generate_motor_housing,
                                  "motor_color", lighting_mode)>>
               ELSE <<>>
      stand == IF generate_stand(has_stand).vertices > 0
               THEN <<render_mesh("stand", generate_stand(has_stand),
                                  "stand_color", lighting_mode)>>
               ELSE <<>>
      cage == IF fan_type \in {"table", "desk"}
                 /\ generate_safety_cage.vertices > 0
              THEN <<render_cage(generate_safety_cage)>>
              ELSE <<>>
  IN blades \o motor \o stand \o cage

(***************************************************************************)
(* Calls of the generators, of apply_lighting and of render                *)
(***************************************************************************)
fan_vars == <<fan_type, lighting_mode>>

GenerateBlade ==
  /\ returned' = [call |-> "generate_blade", mesh |-> generate_blade]
  /\ UNCHANGED <<fan_vars, physics_vars, config_vars>>

GenerateMotorHousing ==
  /\ returned' = [call |-> "generate_motor_housing",
                  mesh |-> generate_motor_housing]
  /\ UNCHANGED <<fan_vars, physics_vars, config_vars>>

GenerateStand ==
  /\ returned' = [call |-> "generate_stand", mesh |-> generate_stand(has_stand)]
  /\ UNCHANGED <<fan_vars, physics_vars, config_vars>>

GenerateSafetyCage ==
  /\ returned' = [call |-> "generate_safety_cage",
                  mesh |-> generate_safety_cage]
  /\ UNCHANGED <<fan_vars, physics_vars, config_vars>>

\* largest vertex count, face count and face length of the meshes a caller
\* brings to apply_lighting and to render's per-mesh step
MaxVerts == 3

MaxFaces == 2

MaxFaceLen == 3

\* the face over the first n vertices
FirstVertices(n) == [i \in 1..n |-> i - 1]

\* meshes whose faces index existing vertices, faces of fewer than three
\* vertices included
InputMeshes ==
  UNION {
    UNION {
      { [vertices |-> v, faces |-> [k \in 1..n |-> FirstVertices(lens[k])]] :
          lens \in [1..n -> 0..Min(v, MaxFaceLen)] }
      : n \in 0..MaxFaces }
    : v \in 0..MaxVerts }

\* apply_lighting called on the mesh at hand: the mesh a caller brought or
\* the one a generator returned
ApplyLighting ==
  /\ returned.call \notin {"none", "render"}
  /\ LET m == returned.mesh IN
       returned' = [call |-> "apply_lighting", mesh |-> m,
                    face_colors |-> apply_lighting(m.vertices, m.faces,
                                                   "blade_color", lighting_mode)]
  /\ UNCHANGED <<fan_vars, physics_vars, config_vars>>

\* the per-mesh step of render on the mesh at hand
RenderMesh ==
  /\ returned.call \notin {"none", "render"}
  /\ LET m == returned.mesh IN
       /\ m.vertices > 0
       /\ returned' = [call |-> "render_mesh", mesh |-> m,
                       collection |-> render_mesh("mesh", m, "blade_color",
                                                  lighting_mode)]
  /\ UNCHANGED <<fan_vars, physics_vars, config_vars>>

Render ==
  /\ returned' = [call |-> "render", collections |-> render]
  /\ UNCHANGED <<fan_vars, physics_vars, config_vars>>

(***************************************************************************)
(* Specifications                                                          *)
(***************************************************************************)
\* speed control: the speed keys, the power key and update_physics calls
Next ==
  \/ KeyUp
  \/ KeyDown
  \/ KeyO
  \/ \E dt \in DtInputs : UpdatePhysics(dt)

Spec == Init /\ [][Next]_vars

\* oscillation: the space key and the frames of the host (default dt)
NextOsc ==
  \/ KeySpace
  \/ UpdatePhysics(DefaultDt)

SpecOsc == Init /\ [][NextOsc]_vars

\* configuration: a fan constructed under any name, the archetype keys, the
\* lighting key, the power key and update_physics calls
InitConfig == \E ft \in FanTypeInputs : InitFan(ft)

NextConfig ==
  \/ \E k \in 1..Len(types) : KeyDigit(k)
  \/ KeyL
  \/ KeyO
  \/ \E dt \in DtInputs : UpdatePhysics(dt)

SpecConfig == InitConfig /\ [][NextConfig]_vars

\* archetype selection: the simulator's ceiling fan under the same keys and
\* calls, so that any other archetype has been selected by a key
SpecSelect == Init /\ [][NextConfig]_vars

\* meshes: a fan of any archetype whose configured count or dimensions may
\* have been set to zero, or a fan of any archetype and a mesh brought by the
\* caller; the lighting key, and calls of the generators, of apply_lighting
\* and of render
ZeroableFields == {"blade_count", "blade_length", "blade_width", "motor_radius"}

InitMesh ==
  \E ft \in {types[k] : k \in 1..Len(types)}, zero \in SUBSET ZeroableFields,
     m \in InputMeshes :
    LET config == configure_fan(ft) IN
      /\ zero = {} \/ m = [vertices |-> 0, faces |-> <<>>]
      /\ fan_type = ft
      /\ angle = 0
      /\ is_on = TRUE
      /\ oscillate = FALSE
      /\ oscillate_angle = 0
      /\ oscillate_direction = 1
      /\ lighting_mode = "realistic"
      /\ blade_count  = IF "blade_count" \in zero THEN 0 ELSE config.blade_count
      /\ blade_length = IF "blade_length" \in zero THEN 0 ELSE config.blade_length
      /\ blade_width  = IF "blade_width" \in zero THEN 0 ELSE config.blade_width
      /\ motor_radius = IF "motor_radius" \in zero THEN 0 ELSE config.motor_radius
      /\ has_stand    = config.has_stand
      /\ tilt_angle   = config.tilt_angle
      /\ target_speed = speed
      /\ current_speed = 0
      /\ returned = [call |-> "input", mesh |-> m]

NextMesh ==
  \/ KeyL
  \/ GenerateBlade
  \/ GenerateMotorHousing
  \/ GenerateStand
  \/ GenerateSafetyCage
  \/ ApplyLighting
  \/ RenderMesh
  \/ Render

SpecMesh == InitMesh /\ [][NextMesh]_vars

\* the same with update_physics called fairly: the host's animation timer
\* calls update() every frame, so an update that is due is not postponed
\* for ever
SpecFair == Spec /\ WF_vars(\E dt \in DtInputs : UpdatePhysics(dt))

(***************************************************************************)
(* Iterated physics, for the scenarios that count calls                    *)
(***************************************************************************)
RECURSIVE SpeedAfter(_, _, _, _)
\* current_speed after n update_physics calls with is_on and target_speed
\* held: n calls are n \div 2 calls followed by the remaining ones (the
\* test mid = mid only makes the first half be evaluated first)
SpeedAfter(n, on, cur, tgt) ==
  IF n = 0 THEN cur
  ELSE IF n = 1 THEN UpdateSpeed(on, cur, tgt)
  ELSE LET mid == SpeedAfter(n \div 2, on, cur, tgt) IN
         IF mid = mid THEN SpeedAfter(n - n \div 2, on, mid, tgt) ELSE mid

\* one oscillating call on <<oscillate_angle, oscillate_direction, flips>>,
\* flips counting the calls that negated the direction
OscCall(st) ==
  LET o == UpdateOscillation(st[1], st[2]) IN
    <<o[1], o[2], IF o[2] # st[2] THEN st[3] + 1 ELSE st[3]>>

RECURSIVE OscAfter(_, _)
\* the triple after n oscillating update_physics calls
OscAfter(n, st) ==
  IF n = 0 THEN st
  ELSE IF n = 1 THEN OscCall(st)
  ELSE LET mid == OscAfter(n \div 2, st) IN
         IF mid = mid THEN OscAfter(n - n \div 2, mid) ELSE mid

\* the number of calls the running fan needs from cur to tgt: the distance
\* over the step, rounded up
CallsToTarget(cur, tgt) ==
  IF cur < tgt THEN (tgt - cur + acceleration - 1) \div acceleration
  ELSE (cur - tgt + deceleration - 1) \div deceleration

(***************************************************************************)
(* Claims                                                                  *)
(***************************************************************************)

\* C1: in every reachable state 0 <= current_speed <= max_speed.
C1_SpeedInRange == 0 <= current_speed /\ current_speed <= max_speed

\* C1 witness: the fan has been driven to full speed.
C1_Witness == current_speed = max_speed /\ is_on

\* C2: while is_on holds and target_speed is not changed, a step moves
\* current_speed toward target_speed by the fixed step (+0.1 below, -0.05
\* above), shortened to land on the target rather than cross it, and leaves
\* it alone once it equals the target; from any reachable state of the
\* running fan the target is reached after CallsToTarget calls and kept
\* (in particular from the initial state, 0 and target 2.0, after 100
\* calls); under fair scheduling of update_physics the running fan reaches
\* a held target.
C2_Converges ==
  /\ [][(is_on /\ is_on' /\ target_speed' = target_speed) =>
          /\ current_speed < target_speed =>
               /\ current_speed < current_speed'
               /\ current_speed' <= target_speed
               /\ \/ current_speed' = current_speed + acceleration
                  \/ current_speed' = target_speed
          /\ current_speed > target_speed =>
               /\ current_speed > current_speed'
               /\ current_speed' >= target_speed
               /\ \/ current_speed' = current_speed - deceleration
                  \/ current_speed' = target_speed
          /\ current_speed = target_speed => current_speed' = current_speed
       ]_vars
  /\ [](is_on =>
          SpeedAfter(CallsToTarget(current_speed, target_speed),
                     is_on, current_speed, target_speed) = target_speed)
  /\ [](is_on /\ current_speed = 0 /\ target_speed = speed =>
          SpeedAfter(100, is_on, current_speed, target_speed) = speed)
  /\ \A t \in {speed, max_speed} :
       (is_on /\ target_speed = t)
         ~> (current_speed = t \/ ~is_on \/ target_speed # t)

\* C2 witness: the running fan has reached the initial target from below.
C2_Witness ==
  /\ is_on
  /\ target_speed = speed
  /\ current_speed = target_speed
  /\ angle # 0

\* C3: while is_on is false current_speed never increases, whatever
\* target_speed is, and it reaches 0 after finitely many calls.
C3_StopsWhenOff ==
  /\ [][~is_on => current_speed' <= current_speed]_vars
  /\ [][(~is_on /\ ~is_on' /\ current_speed' # current_speed) =>
          current_speed' = Max(0, current_speed - deceleration)]_vars
  /\ [](~is_on =>
          SpeedAfter(CallsToTarget(current_speed, 0),
                     is_on, current_speed, target_speed) = 0)
  /\ ~is_on ~> (current_speed = 0 \/ is_on)

\* C3 witness: the fan has turned, is off and has stopped although the
\* target was raised to max_speed while it was off.
C3_Witness ==
  /\ ~is_on
  /\ current_speed = 0
  /\ target_speed = max_speed
  /\ angle # 0

\* C4: |oscillate_angle| <= oscillate_range/2 always; an update_physics call
\* negates oscillate_direction exactly when it brings oscillate_angle to
\* +range/2 or -range/2; from angle 0 and direction +1, 60 oscillating
\* updates reach +30 (first flip), 180 reach -30 (second flip) and 240 are
\* back at 0 with two flips in all.
C4_Oscillation ==
  /\ [](Abs(oscillate_angle) <= oscillate_range \div 2)
  /\ [][UpdatePhysics(DefaultDt) =>
          ((oscillate_direction' = -oscillate_direction) <=>
             (/\ oscillate_angle' # oscillate_angle
              /\ Abs(oscillate_angle') = oscillate_range \div 2))]_vars
  /\ []((oscillate_angle = 0 /\ oscillate_direction = 1) =>
          /\ OscAfter(59, <<oscillate_angle, oscillate_direction, 0>>)
               = <<oscillate_range \div 2 - oscillate_step, 1, 0>>
          /\ OscAfter(60, <<oscillate_angle, oscillate_direction, 0>>)
               = <<oscillate_range \div 2, -1, 1>>
          /\ OscAfter(179, <<oscillate_angle, oscillate_direction, 0>>)
               = <<oscillate_step - oscillate_range \div 2, -1, 1>>
          /\ OscAfter(180, <<oscillate_angle, oscillate_direction, 0>>)
               = <<-(oscillate_range \div 2), 1, 2>>
          /\ OscAfter(240, <<oscillate_angle, oscillate_direction, 0>>)
               = <<0, 1, 2>>)

\* C4 witness: the sweep has hit the lower boundary and turned round.
C4_Witness ==
  /\ oscillate
  /\ oscillate_angle = -(oscillate_range \div 2)
  /\ oscillate_direction = 1

\* C5: the power key flips is_on and sets target_speed to 0 when the fan is
\* turned off and to 2.0 when it is turned on, whatever target_speed was.
C5_PowerToggle ==
  /\ [][KeyO => /\ is_on' # is_on
                /\ target_speed' = IF is_on THEN 0 ELSE 200]_vars
  /\ [][is_on' # is_on => target_speed' = IF is_on' THEN 200 ELSE 0]_vars

\* C5 witness: the fan was switched off while it ran above the default
\* target, i.e. with a target other than 2.0.
C5_Witness == ~is_on /\ target_speed = 0 /\ current_speed > 200

\* C6: the up and down keys change target_speed by exactly +0.5 and -0.5,
\* except at max_speed and at 0 where they leave it, so
\* 0 <= target_speed <= max_speed always.
C6_TargetSteps ==
  /\ [](0 <= target_speed /\ target_speed <= max_speed)
  /\ [][KeyUp => \/ target_speed' = target_speed + 50
                 \/ target_speed = max_speed /\ target_speed' = max_speed]_vars
  /\ [][KeyDown => \/ target_speed' = target_speed - 50
                   \/ target_speed = 0 /\ target_speed' = 0]_vars

\* C6 witness: the target has been raised to max_speed.
C6_Witness == target_speed = max_speed /\ current_speed < target_speed

\* C7: an archetype key sets the six configuration fields to the selected
\* archetype's row and leaves angle, current_speed, target_speed and is_on
\* unchanged.
C7_SelectArchetype ==
  [][\A k \in 1..Len(types) :
       KeyDigit(k) =>
         /\ fan_type' = types[k]
         /\ <<blade_count', blade_length', blade_width', motor_radius',
              has_stand', tilt_angle'>>
              = <<configs[types[k]].blade_count, configs[types[k]].blade_length,
                  configs[types[k]].blade_width, configs[types[k]].motor_radius,
                  configs[types[k]].has_stand, configs[types[k]].tilt_angle>>
         /\ UNCHANGED <<angle, current_speed, target_speed, is_on>>]_vars

\* C7 witness: the tower archetype was selected while the fan was spinning
\* down with a non-zero rotation angle.
C7_Witness ==
  /\ fan_type = "tower"
  /\ blade_count = 20
  /\ ~is_on
  /\ current_speed > 0
  /\ angle # 0

\* C8: a fan configured under a name that is not an archetype has the six
\* configuration fields of the ceiling archetype.
C8_UnknownIsCeiling ==
  fan_type \notin {types[k] : k \in 1..Len(types)} =>
    <<blade_count, blade_length, blade_width, motor_radius, has_stand,
      tilt_angle>>
      = <<configs["ceiling"].blade_count, configs["ceiling"].blade_length,
          configs["ceiling"].blade_width, configs["ceiling"].motor_radius,
          configs["ceiling"].has_stand, configs["ceiling"].tilt_angle>>

\* C8 witness: a fan constructed as "pedestal" is running with the ceiling
\* row.
C8_Witness ==
  /\ fan_type = "pedestal"
  /\ blade_count = 3
  /\ has_stand = FALSE
  /\ current_speed > 0

Generators == {"generate_blade", "generate_motor_housing", "generate_stand",
               "generate_safety_cage"}

\* C9: a generator called on a fan whose configured count or one of whose
\* dimensions is zero returns an empty mesh: no vertices and no faces.
C9_ZeroExtentEmpty ==
  (/\ returned.call \in Generators
   /\ \/ blade_count = 0
      \/ blade_length = 0
      \/ blade_width = 0
      \/ motor_radius = 0)
    => (returned.mesh.vertices = 0 /\ returned.mesh.faces = <<>>)

C11_FaceIndicesValid ==
  returned.call \in Generators =>
    \A f \in 1..Len(returned.mesh.faces) :
      \A p \in 1..Len(returned.mesh.faces[f]) :
        /\ 0 <= returned.mesh.faces[f][p]
        /\ returned.mesh.faces[f][p] < returned.mesh.vertices

\* C11 witness: the motor housing has been generated and its last face
\* uses the last vertex of the top ring.
C11_Witness ==
  /\ returned.call = "generate_motor_housing"
  /\ Len(returned.mesh.faces) > 0
  /\ returned.mesh.faces[Len(returned.mesh.faces)][3]
       = returned.mesh.vertices - 1

====
